---- MODULE Spec2Model ----
(***************************************************************************)
(* State-machine model of hyperion/grid/spherical_polar_grid.py:           *)
(* SphericalPolarGrid (set_walls, _check_array_dimensions, read, write,    *)
(* get_geometry_id) acting on one HDF5 group.                              *)
(*                                                                         *)
(* Numbers.  Wall positions are naturals standing for float values.        *)
(* Quantities the code derives with exact arithmetic (differences, powers) *)
(* are computed; transcendental factors (cos, sin, log10) are kept as      *)
(* terms naming their arguments.  An array is a record of its shape and    *)
(* its cells; a 1-D wall array also carries its dtype.  An optional value  *)
(* (Python None) is a sequence of length 0 or 1.                           *)
(***************************************************************************)
EXTENDS Integers, Sequences, FiniteSets, TLC

VARIABLES mesh, reader, h5group, result

vars == <<mesh, reader, h5group, result>>

\* Largest wall position, and longest wall sequence, that the callers of
\* set_walls and of the constructor pass when the geometry alone is checked.
MaxWall == 2
MaxLen == 2
\* Largest radial wall position of the grids that are written and read.
MaxRadius == 2

-----------------------------------------------------------------------------
(* Python values *)

None == <<>>
Some(x) == <<x>>
Get(o) == o[1]

\* An exception: its type, its message and the values formatted into it.
Raised(exc, msg, args) == [exc |-> exc, msg |-> msg, args |-> args]
NoError == Raised("", "", <<>>)

-----------------------------------------------------------------------------
(* numpy arrays *)

\* A 1-D array as np.array builds it from a sequence of Python floats.
ndarray(dtype, v) == [kind |-> "ndarray", ndim |-> 1, dtype |-> dtype, v |-> v]

\* Conversion of one element to a dtype: float32 keeps fewer digits than
\* float64, so a value that needs them is rounded.
astype(dtype, x) == IF dtype = "f32" THEN 2 * (x \div 2) ELSE x

\* The raw bytes of one element: 2 per float64 element, 1 per float32 one.
itembytes(dtype, x) == IF dtype = "f32" THEN <<x>> ELSE <<x, 0>>

\* The buffer of a 1-D array: its elements' bytes, in order, nothing else.
RECURSIVE tobytes(_)
tobytes(a) ==
    IF a.v = <<>> THEN <<>>
    ELSE itembytes(a.dtype, Head(a.v)) \o tobytes([a EXCEPT !.v = Tail(a.v)])

\* a[:-1] and a[1:]
init(v) == IF v = <<>> THEN <<>> ELSE SubSeq(v, 1, Len(v) - 1)
rest(v) == IF v = <<>> THEN <<>> ELSE Tail(v)

\* The index set of an array of the given shape.
Indices3(shape) ==
    {<<k, j, i>> : k \in 1..shape[1], j \in 1..shape[2], i \in 1..shape[3]}
Indices4(shape) ==
    {<<f, k, j, i>> : f \in 1..shape[1], k \in 1..shape[2],
                      j \in 1..shape[3], i \in 1..shape[4]}

Array3(shape, F(_, _, _)) ==
    [shape |-> shape,
     data |-> [x \in Indices3(shape) |-> F(x[1], x[2], x[3])]]
Array4(shape, F(_, _, _, _)) ==
    [shape |-> shape,
     data |-> [x \in Indices4(shape) |-> F(x[1], x[2], x[3], x[4])]]

\* A value of the geometry formulas, as the product (num / den) * trig * root:
\* num / den is the exact rational factor, trig a sine or cosine factor and
\* root a geometric-mean factor, each naming its arguments (One: no factor).
One == <<"1">>
Term(num, den, trig, root) ==
    [num |-> num, den |-> den, trig |-> trig, root |-> root]
Times(x, n) == [x EXCEPT !.num = @ * n]
Cos(x) == <<"cos", x.num, x.den>>
Sin(x) == <<"sin", x.num, x.den>>

-----------------------------------------------------------------------------
(* hyperion.util *)

is_numpy_array(x) == x.kind = "ndarray"

monotonically_increasing(a) ==
    \A i \in 1..(Len(a.v) - 1) : a.v[i + 1] > a.v[i]

\* meshgrid_nd(x, y, z): each of x, y, z expanded to shape (len z, len y, len x).
meshgrid_shape(x, y, z) == <<Len(z), Len(y), Len(x)>>
meshgrid_nd(x, y, z) ==
    [gx |-> Array3(meshgrid_shape(x, y, z), LAMBDA k, j, i : x[i]),
     gy |-> Array3(meshgrid_shape(x, y, z), LAMBDA k, j, i : y[j]),
     gz |-> Array3(meshgrid_shape(x, y, z), LAMBDA k, j, i : z[k])]

-----------------------------------------------------------------------------
(* SphericalPolarGrid.__init__ without arguments *)

\* A faulty variant: a constructor that starts with volumes computed for no
\* walls (an empty array) instead of None.
NewGrid_with_volumes ==
    [nr |-> None, nt |-> None, np |-> None, shape |-> None,
     r_wall |-> None, t_wall |-> None, p_wall |-> None,
     r |-> None, t |-> None, p |-> None,
     gr |-> None, gt |-> None, gp |-> None, gw |-> None, gz |-> None,
     volumes |-> Some([shape |-> <<0, 0, 0>>, data |-> <<>>]),
     areas |-> None, widths |-> None,
     quantities |-> <<>>]

NewGrid ==
    [nr |-> None, nt |-> None, np |-> None, shape |-> None,
     r_wall |-> None, t_wall |-> None, p_wall |-> None,
     r |-> None, t |-> None, p |-> None,
     gr |-> None, gt |-> None, gp |-> None, gw |-> None, gz |-> None,
     volumes |-> None, areas |-> None, widths |-> None,
     quantities |-> <<>>]

-----------------------------------------------------------------------------
(* SphericalPolarGrid.get_geometry_id *)

\* hashlib.md5 taken as collision-free: the digest stands for the bytes fed.
md5_hexdigest(bytes) == bytes

\* A faulty variant: the azimuthal walls are left out of the hash.
get_geometry_id_without_p_wall(self) ==
    md5_hexdigest(tobytes(Get(self.r_wall)) \o tobytes(Get(self.t_wall)))

get_geometry_id(self) ==
    md5_hexdigest(tobytes(Get(self.r_wall)) \o tobytes(Get(self.t_wall))
                  \o tobytes(Get(self.p_wall)))

-----------------------------------------------------------------------------
(* SphericalPolarGrid.set_walls *)

\* Lines 48-53: a list or tuple becomes an array; anything else is kept.
asarray(x) == IF x.kind = "list" THEN [x EXCEPT !.kind = "ndarray"] ELSE x

\* Line 82: 10 ** ((log10(a) + log10(b)) / 2); log10(0) is -inf and gives 0.
logmean(a, b) ==
    IF a = 0 \/ b = 0 THEN Term(0, 1, One, One)
    ELSE Term(1, 1, One, <<"10**((log10+log10)/2)", a, b>>)

\* Line 85: (a + b) / 2
midpoint(a, b) == Term(a + b, 2, One, One)

\* A call of an operation: the object after it, and the exception it raised.
Return(self) == [self |-> self, err |-> NoError]
Raise(self, exc, msg, args) == [self |-> self, err |-> Raised(exc, msg, args)]

\* Lines 69-79: cell counts, shape and walls.
set_walls_store(self, r_wall, t_wall, p_wall) ==
    [self EXCEPT !.nr = Some(Len(r_wall.v) - 1),
                 !.nt = Some(Len(t_wall.v) - 1),
                 !.np = Some(Len(p_wall.v) - 1),
                 !.shape = Some(<<Len(p_wall.v) - 1, Len(t_wall.v) - 1,
                                  Len(r_wall.v) - 1>>),
                 !.r_wall = Some(r_wall),
                 !.t_wall = Some(t_wall),
                 !.p_wall = Some(p_wall)]

\* Line 82: the radial centers before the zero-wall correction.
r_centers(w) == [i \in 1..(Len(w) - 1) |-> logmean(w[i], w[i + 1])]
\* Lines 85-86: the angular centers.
mid_centers(w) == [i \in 1..(Len(w) - 1) |-> midpoint(w[i], w[i + 1])]

\* Lines 88-163: everything derived from the centers and the walls, up to
\* and including the volumes (line 116), then the areas and the widths.
set_walls_volumes(self, rw, tw, pw) ==
    LET r == Get(self.r)
        t == Get(self.t)
        p == Get(self.p)
        g == meshgrid_nd(r, t, p)
        shp == meshgrid_shape(init(rw), init(tw), init(pw))
        dr3(i) == rw[i + 1] * rw[i + 1] * rw[i + 1] - rw[i] * rw[i] * rw[i]
        dcost(j) == <<"cos-cos", tw[j], tw[j + 1]>>
        dp(k) == pw[k + 1] - pw[k]
    IN  [self EXCEPT
            !.gr = Some(g.gx), !.gt = Some(g.gy), !.gp = Some(g.gz),
            !.gz = Some(Array3(g.gx.shape, LAMBDA k, j, i :
                        [r[i] EXCEPT !.trig = Cos(t[j])])),
            !.gw = Some(Array3(g.gx.shape, LAMBDA k, j, i :
                        [r[i] EXCEPT !.trig = Sin(t[j])])),
            !.volumes = Some(Array3(shp, LAMBDA k, j, i :
                        Term(dr3(i) * dp(k), 3, dcost(j), One)))]

set_walls_areas(self, rw, tw, pw) ==
    LET r == Get(self.r)
        t == Get(self.t)
        dr(i) == rw[i + 1] - rw[i]
        dr2(i) == rw[i + 1] * rw[i + 1] - rw[i] * rw[i]
        dt(j) == tw[j + 1] - tw[j]
        dcost(j) == <<"cos-cos", tw[j], tw[j + 1]>>
        dp(k) == pw[k + 1] - pw[k]
        area(f, k, j, i) ==
            CASE f = 1 -> Term(rw[i] * rw[i] * dp(k), 1, dcost(j), One)
              [] f = 2 -> Term(rw[i + 1] * rw[i + 1] * dp(k), 1, dcost(j), One)
              [] f = 3 -> Term(dr2(i) * dp(k), 2, <<"sin", tw[j], 1>>, One)
              [] f = 4 -> Term(dr2(i) * dp(k), 2, <<"sin", tw[j + 1], 1>>, One)
              [] f = 5 -> Term(dr2(i) * dt(j), 2, One, One)
              [] f = 6 -> Term(dr2(i) * dt(j), 2, One, One)
        width(f, k, j, i) ==
            CASE f = 1 -> Term(dr(i), 1, One, One)
              [] f = 2 -> Times(r[i], dt(j))
              [] f = 3 -> Times([r[i] EXCEPT !.trig = Sin(t[j])], dp(k))
    IN  [self EXCEPT
            !.areas = Some(Array4(<<6>> \o Get(self.shape), area)),
            !.widths = Some(Array4(<<3>> \o Get(self.shape), width))]

set_walls(self, r_in, t_in, p_in) ==
    LET r_wall == asarray(r_in)
        t_wall == asarray(t_in)
        p_wall == asarray(p_in)
        rw == r_wall.v
        tw == t_wall.v
        pw == p_wall.v
        s1 == set_walls_store(self, r_wall, t_wall, p_wall)
        \* line 82
        s2 == [s1 EXCEPT !.r = Some(r_centers(rw))]
        \* line 84: r[0] = r_wall[1] / 2
        s3 == IF rw[1] = 0
              THEN [s2 EXCEPT !.r = Some([Get(s2.r) EXCEPT
                                            ![1] = Term(rw[2], 2, One, One)])]
              ELSE s2
        \* lines 85-86
        s4 == [s3 EXCEPT !.t = Some(mid_centers(tw)),
                         !.p = Some(mid_centers(pw))]
        s5 == set_walls_volumes(s4, rw, tw, pw)
    IN  IF ~is_numpy_array(r_wall) \/ r_wall.ndim # 1
        THEN Raise(self, "ValueError", "r_wall should be a 1-D sequence", <<>>)
        ELSE IF ~is_numpy_array(t_wall) \/ t_wall.ndim # 1
        THEN Raise(self, "ValueError", "t_wall should be a 1-D sequence", <<>>)
        ELSE IF ~is_numpy_array(p_wall) \/ p_wall.ndim # 1
        THEN Raise(self, "ValueError", "p_wall should be a 1-D sequence", <<>>)
        ELSE IF ~monotonically_increasing(r_wall)
        THEN Raise(self, "ValueError",
                   "r_wall should be monotonically increasing", <<>>)
        ELSE IF ~monotonically_increasing(t_wall)
        THEN Raise(self, "ValueError",
                   "t_wall should be monotonically increasing", <<>>)
        ELSE IF ~monotonically_increasing(p_wall)
        THEN Raise(self, "ValueError",
                   "p_wall should be monotonically increasing", <<>>)
        \* line 83: r_wall[0] of an empty array
        ELSE IF Len(rw) = 0
        THEN Raise(s2, "IndexError", "index 0 is out of bounds", <<>>)
        \* line 84: r_wall[1] of an array of one element
        ELSE IF rw[1] = 0 /\ Len(rw) = 1
        THEN Raise(s2, "IndexError", "index 1 is out of bounds", <<>>)
        \* lines 120, 145: np.zeros with a negative dimension
        ELSE IF Len(tw) = 0 \/ Len(pw) = 0
        THEN Raise(s5, "ValueError", "negative dimensions are not allowed",
                   <<>>)
        ELSE Return(set_walls_areas(s5, rw, tw, pw))

\* SphericalPolarGrid(*args): with arguments, the constructor sets the walls.
__init__(args) ==
    IF Len(args) > 0 THEN set_walls(NewGrid, args[1], args[2], args[3])
    ELSE Return(NewGrid)

-----------------------------------------------------------------------------
(* Quantities and the HDF5 group *)

\* A value held in self.quantities: an array of one shape ("ndarray"), a list
\* of arrays ("list", one shape per item), an h5py.ExternalLink to an array
\* elsewhere ("ExternalLink"), or something that is none of these ("other").
\* The cells all hold the value fill.
Quantity(kind, shapes, fill, dtype) ==
    [kind |-> kind, shapes |-> shapes, fill |-> fill, dtype |-> dtype]

\* quantities == 'all' or quantity in quantities
selected(quantities, quantity) ==
    quantities.all \/ quantity \in quantities.names

\* The keys of a dict or of an HDF5 group, in its iteration order.
keys(d) ==
    CHOOSE s \in [1..Cardinality(DOMAIN d) -> DOMAIN d] :
        \A k \in DOMAIN d : \E i \in DOMAIN s : s[i] = k

\* An empty HDF5 group, as the caller hands it to write.
EmptyGroup == [Geometry |-> None, Physics |-> None]

\* group.create_group
create_group == <<>>
NoAttrs == [grid_type |-> None, geometry |-> None]

\* A dataset of the Physics group, with its 'geometry' attribute.
Dataset(kind, shape, fill, dtype, geometry) ==
    [kind |-> kind, shape |-> shape, fill |-> fill, dtype |-> dtype,
     geometry |-> geometry]

-----------------------------------------------------------------------------
(* SphericalPolarGrid._check_array_dimensions *)

\* The first item of a list whose shape is not self.shape (0: none).
first_mismatch(self, shapes) ==
    IF \E i \in DOMAIN shapes : Some(shapes[i]) # self.shape
    THEN CHOOSE i \in DOMAIN shapes :
            /\ Some(shapes[i]) # self.shape
            /\ \A j \in 1..(i - 1) : Some(shapes[j]) = self.shape
    ELSE 0

\* A faulty variant: the items of a list are not compared with self.shape.
_check_array_dimensions_skipping_lists(self, array) ==
    IF array.kind = "list"
    THEN NoError
    ELSE IF array.kind = "ndarray"
    THEN IF Some(array.shapes[1]) # self.shape
         THEN Raised("ValueError", "Array does not have the right dimensions",
                     <<Some(array.shapes[1]), self.shape>>)
         ELSE NoError
    ELSE Raised("ValueError", "Array should be a list or a Numpy array", <<>>)

_check_array_dimensions(self, array) ==
    IF array.kind = "list"
    THEN IF first_mismatch(self, array.shapes) # 0
         THEN Raised("ValueError",
                     "Arrays in list do not have the right dimensions",
                     <<Some(array.shapes[first_mismatch(self, array.shapes)]),
                       self.shape>>)
         ELSE NoError
    ELSE IF array.kind = "ndarray"
    THEN IF Some(array.shapes[1]) # self.shape
         THEN Raised("ValueError", "Array does not have the right dimensions",
                     <<Some(array.shapes[1]), self.shape>>)
         ELSE NoError
    ELSE Raised("ValueError", "Array should be a list or a Numpy array", <<>>)

-----------------------------------------------------------------------------
(* SphericalPolarGrid.write *)

\* The shape of the dataset h5py makes of a value: a list of k arrays of one
\* shape becomes one array with a new leading axis of length k.
data_shape(array) ==
    IF array.kind = "list"
    THEN <<Len(array.shapes)>> \o array.shapes[1]
    ELSE array.shapes[1]

\* link_or_copy: the link copied into, or linked from, the Physics group.
link_or_copy(g_physics, name, link, copy) ==
    (name :> Dataset(IF copy THEN "copy" ELSE "link", link.shapes[1],
                     link.fill, link.dtype, None)) @@ g_physics

\* Lines 264-271: the wall dataset of one axis, at the wall dtype.
wall_dataset(wall, wall_dtype) ==
    [data |-> ndarray(wall_dtype,
                      [i \in DOMAIN wall.v |-> astype(wall_dtype, wall.v[i])]),
     Unit |-> "cm"]

\* Lines 275-284: the loop over self.quantities, from the i-th key on.
RECURSIVE write_quantities(_, _, _, _, _, _, _)
write_quantities(self, group, order, i, quantities, copy, physics_dtype) ==
    IF i > Len(order) THEN [self |-> self, group |-> group, err |-> NoError]
    ELSE
    LET quantity == order[i]
        value == self.quantities[quantity]
        g_physics == Get(group.Physics)
        check == _check_array_dimensions(self, value)
        exists == [self |-> self, group |-> group,
                   err |-> Raised("ValueError",
                                  "Unable to create (name already exists)",
                                  <<quantity>>)]
        linked == [group EXCEPT !.Physics =
                      Some(link_or_copy(g_physics, quantity, value, copy))]
        written == [group EXCEPT !.Physics =
                      Some((quantity :>
                              Dataset("dataset", data_shape(value),
                                      astype(physics_dtype, value.fill),
                                      physics_dtype,
                                      Some(get_geometry_id(self))))
                           @@ g_physics)]
    IN  IF ~selected(quantities, quantity)
        THEN write_quantities(self, group, order, i + 1, quantities, copy,
                              physics_dtype)
        ELSE IF value.kind = "ExternalLink"
        THEN IF quantity \in DOMAIN g_physics THEN exists
             ELSE write_quantities(self, linked, order, i + 1, quantities,
                                   copy, physics_dtype)
        ELSE IF check # NoError
        THEN [self |-> self, group |-> group, err |-> check]
        ELSE IF quantity \in DOMAIN g_physics THEN exists
        ELSE write_quantities(self, written, order, i + 1, quantities, copy,
                              physics_dtype)

\* g_geometry.create_dataset(name, ...) of the wall datasets, in order; h5py
\* refuses a name the group already holds.
RECURSIVE write_walls(_, _, _, _)
write_walls(self, group, i, wall_dtype) ==
    LET names == <<"Walls 1", "Walls 2", "Walls 3">>
        walls == <<Get(self.r_wall), Get(self.t_wall), Get(self.p_wall)>>
        g_geometry == Get(group.Geometry)
    IN  IF i > 3 THEN [self |-> self, group |-> group, err |-> NoError]
        ELSE IF names[i] \in DOMAIN g_geometry.dsets
        THEN [self |-> self, group |-> group,
              err |-> Raised("ValueError",
                             "Unable to create dataset (name already exists)",
                             <<names[i]>>)]
        ELSE write_walls(self,
                [group EXCEPT !.Geometry = Some([g_geometry EXCEPT !.dsets =
                    (names[i] :> wall_dataset(walls[i], wall_dtype)) @@ @])],
                i + 1, wall_dtype)

write(self, group, quantities, copy, wall_dtype, physics_dtype) ==
    LET \* lines 249-257
        g1 == IF group.Geometry = None
              THEN [group EXCEPT !.Geometry =
                        Some([attrs |-> NoAttrs, dsets |-> create_group])]
              ELSE group
        g2 == IF g1.Physics = None
              THEN [g1 EXCEPT !.Physics = Some(create_group)]
              ELSE g1
        \* line 261
        g3 == [g2 EXCEPT !.Geometry = Some([Get(g2.Geometry) EXCEPT
                            !.attrs.grid_type = Some("sph_pol")])]
        \* line 262
        g4 == [g3 EXCEPT !.Geometry = Some([Get(g3.Geometry) EXCEPT
                            !.attrs.geometry = Some(get_geometry_id(self))])]
        w == write_walls(self, g4, 1, wall_dtype)
    IN  IF self.r_wall = None
        THEN [self |-> self, group |-> g3,
              err |-> Raised("TypeError", "md5.update of None", <<>>)]
        ELSE IF w.err # NoError THEN w
        ELSE write_quantities(self, w.group, keys(self.quantities), 1,
                              quantities, copy, physics_dtype)

-----------------------------------------------------------------------------
(* SphericalPolarGrid.read *)

\* self.set, the call of line 215: the walls are set with set_walls.
set(self, r_wall, t_wall, p_wall) == set_walls(self, r_wall, t_wall, p_wall)

\* Lines 223-226: the loop over the Physics group, from the i-th key on.
RECURSIVE read_quantities(_, _, _, _, _)
read_quantities(self, g_physics, order, i, quantities) ==
    IF i > Len(order) THEN self
    ELSE IF ~selected(quantities, order[i])
    THEN read_quantities(self, g_physics, order, i + 1, quantities)
    ELSE read_quantities(
            [self EXCEPT !.quantities =
                (order[i] :> Quantity("ndarray",
                                      <<g_physics[order[i]].shape>>,
                                      g_physics[order[i]].fill,
                                      g_physics[order[i]].dtype)) @@ @],
            g_physics, order, i + 1, quantities)

\* Line 218: the advertised hash is the hash of the walls just set.
\* A faulty variant first: the two are never compared.
hash_unchecked(g_geometry, self) == TRUE

hash_matches(g_geometry, self) ==
    g_geometry.attrs.geometry = Some(get_geometry_id(self))

read(self, group, quantities) ==
    LET g_geometry == Get(group.Geometry)
        g_physics == Get(group.Physics)
        walls == g_geometry.dsets
        s == set(self, walls["Walls 1"].data, walls["Walls 2"].data,
                 walls["Walls 3"].data)
    IN  IF group.Geometry = None
        THEN Raise(self, "KeyError", "Geometry", <<>>)
        ELSE IF group.Physics = None
        THEN Raise(self, "KeyError", "Physics", <<>>)
        ELSE IF g_geometry.attrs.grid_type = None
        THEN Raise(self, "KeyError", "grid_type", <<>>)
        ELSE IF g_geometry.attrs.grid_type # Some("sph_pol")
        THEN Raise(self, "ValueError", "Grid is not spherical polar", <<>>)
        ELSE IF \E n \in {"Walls 1", "Walls 2", "Walls 3"} : n \notin DOMAIN walls
        THEN Raise(self, "KeyError", "Walls", <<>>)
        ELSE IF s.err # NoError THEN s
        ELSE IF g_geometry.attrs.geometry = None
        THEN Raise(s.self, "KeyError", "geometry", <<>>)
        ELSE IF ~hash_matches(g_geometry, s.self)
        THEN Raise(s.self, "Exception",
                   "Calculated geometry hash does not match hash in file",
                   <<>>)
        ELSE Return(read_quantities(s.self, g_physics, keys(g_physics), 1,
                                    quantities))

-----------------------------------------------------------------------------
(* What the callers pass *)

\* A Python list of floats, a 2-D array, and an object that is no sequence.
List(v) == [kind |-> "list", ndim |-> 1, dtype |-> "f64", v |-> v]
Array2D(v) == [kind |-> "ndarray", ndim |-> 2, dtype |-> "f64", v |-> v]
NoSequence == [kind |-> "other", ndim |-> 0, dtype |-> "f64", v |-> <<>>]

SeqsUpTo(S, n) == UNION {[1..k -> S] : k \in 0..n}

\* Geometry alone: every sequence of walls up to the bounds on the radial
\* axis, one accepted and one refused input on each angular axis.
RWallInputs ==
    {List(v) : v \in SeqsUpTo(0..MaxWall, MaxLen)}
        \cup {Array2D(<<0, 1>>), NoSequence}
TWallInputs == {List(<<0, 2, 4>>), List(<<2, 2>>)}
PWallInputs == {List(<<0, 2>>), NoSequence}

\* Grids that are written and read: one radial cell between any two wall
\* positions, one polar and one azimuthal wall sequence.
RadialInputs ==
    {List(<<a, b>>) : a \in 0..1, b \in 1..MaxRadius} \cup {Array2D(<<0, 1>>)}
PolarInputs == {List(<<0, 2, 4>>)}
AzimuthalInputs == {List(<<0, 2>>)}

Names == {"density"}
DTypes == {"f64", "f32"}
All == [all |-> TRUE, names |-> {}]
Selectors == {All} \cup {[all |-> FALSE, names |-> n] : n \in SUBSET Names}

\* The values a caller stores under a name: arrays of the grid's shape (of
\* one cell, before any walls are set) and arrays of another shape.
GoodShape(self) == IF self.shape = None THEN <<1, 1, 1>> ELSE Get(self.shape)
BadShape == <<2, 2>>
QuantityInputs(self) ==
    {Quantity("ndarray", <<GoodShape(self)>>, 3, "f64"),
     Quantity("ndarray", <<BadShape>>, 3, "f64"),
     Quantity("list", <<GoodShape(self), GoodShape(self)>>, 3, "f64"),
     Quantity("list", <<GoodShape(self), BadShape>>, 3, "f64"),
     Quantity("ExternalLink", <<GoodShape(self)>>, 3, "f64"),
     Quantity("other", <<>>, 3, "f64")}

\* The outcome of the last call: the operation, the exception it raised and
\* the value it returned.
Outcome(op, err, val) == [op |-> op, err |-> err, val |-> val]

-----------------------------------------------------------------------------
(* The operations *)

Init ==
    /\ mesh = __init__(<<>>).self
    /\ reader = __init__(<<>>).self
    /\ h5group = EmptyGroup
    /\ result = Outcome("__init__", NoError, None)

SetWallsFrom(R, T, P) ==
    \E r \in R, t \in T, p \in P :
        LET c == set_walls(mesh, r, t, p)
        IN  /\ mesh' = c.self
            /\ result' = Outcome("set_walls", c.err, None)
            /\ UNCHANGED <<reader, h5group>>

SetWalls == SetWallsFrom(RadialInputs, PolarInputs, AzimuthalInputs)

\* self.quantities[name] = value
SetQuantityFrom(V) ==
    \E name \in Names, value \in V :
        /\ mesh' = [mesh EXCEPT !.quantities = (name :> value) @@ @]
        /\ result' = Outcome("set_quantity", NoError, None)
        /\ UNCHANGED <<reader, h5group>>

SetQuantity == SetQuantityFrom(QuantityInputs(mesh))

\* write with copy, wall_dtype and physics_dtype at their defaults.
Write ==
    \E quantities \in Selectors :
        LET c == write(mesh, h5group, quantities, TRUE, "f64", "f64")
        IN  /\ mesh' = c.self
            /\ h5group' = c.group
            /\ result' = Outcome("write", c.err, Some(quantities))
            /\ UNCHANGED reader

Read ==
    \E quantities \in Selectors :
        LET c == read(mesh, h5group, quantities)
        IN  /\ mesh' = c.self
            /\ result' = Outcome("read", c.err, None)
            /\ UNCHANGED <<reader, h5group>>

Next == SetWalls \/ SetQuantity \/ Write \/ Read

Spec == Init /\ [][Next]_vars

-----------------------------------------------------------------------------
(* The geometry alone: set_walls, the quantity store and the queries *)

SetAnyWalls == SetWallsFrom(RWallInputs, TWallInputs, PWallInputs)

StoreArray == SetQuantityFrom({Quantity("ndarray", <<GoodShape(mesh)>>, 3, "f64")})

\* A geometric query: the attribute is read.
Query ==
    \E attr \in {"volumes", "areas", "widths", "r", "t", "p"} :
        /\ result' = Outcome("query", NoError, <<attr, mesh[attr]>>)
        /\ UNCHANGED <<mesh, reader, h5group>>

NextGeom == SetAnyWalls \/ StoreArray \/ Query \/ Read

SpecGeom == Init /\ [][NextGeom]_vars

-----------------------------------------------------------------------------
(* The round trip: a grid constructed with walls is written to an empty     *)
(* group, at any precision, and the group is read into a new grid           *)

\* The grids SphericalPolarGrid(r_wall, t_wall, p_wall) constructs: a
\* constructor that raises constructs none.
Constructed(R, T, P) ==
    {__init__(args).self :
        args \in {a \in R \X T \X P : __init__(a).err = NoError}}

InitRT ==
    /\ mesh \in Constructed(RadialInputs, PolarInputs, AzimuthalInputs)
    /\ reader = __init__(<<>>).self
    /\ h5group = EmptyGroup
    /\ result = Outcome("__init__", NoError, None)

StoreFirst ==
    /\ h5group = EmptyGroup
    /\ SetQuantity

WriteEmpty ==
    /\ h5group = EmptyGroup
    /\ \E quantities \in Selectors, copy \in BOOLEAN,
          wall_dtype \in DTypes, physics_dtype \in DTypes :
        LET c == write(mesh, h5group, quantities, copy, wall_dtype,
                       physics_dtype)
        IN  /\ mesh' = c.self
            /\ h5group' = c.group
            /\ result' = Outcome("write", c.err, None)
            /\ UNCHANGED reader

ReadFresh ==
    /\ result.op = "write"
    /\ LET c == read(__init__(<<>>).self, h5group, All)
       IN  /\ reader' = c.self
           /\ result' = Outcome("read", c.err, None)
           /\ UNCHANGED <<mesh, h5group>>

NextRT == StoreFirst \/ WriteEmpty \/ ReadFresh

SpecRT == InitRT /\ [][NextRT]_vars

-----------------------------------------------------------------------------
(* The fingerprint: two grids constructed with any walls *)

\* Every wall sequence up to the bounds on the radial and the polar axis,
\* three azimuthal ones.
WallInputs == {List(v) : v \in SeqsUpTo(0..MaxWall, MaxLen)}
FewWallInputs == {List(<<1>>), List(<<2>>), List(<<1, 2>>)}

InitFp ==
    /\ \E pair \in Constructed(WallInputs, WallInputs, FewWallInputs)
                    \X Constructed(WallInputs, WallInputs, FewWallInputs) :
          mesh = pair[1] /\ reader = pair[2]
    /\ h5group = EmptyGroup
    /\ result = Outcome("__init__", NoError, None)

Fingerprints ==
    /\ result.op = "__init__"
    /\ result' = Outcome("get_geometry_id", NoError,
                         <<get_geometry_id(mesh), get_geometry_id(reader)>>)
    /\ UNCHANGED <<mesh, reader, h5group>>

NextFp == Fingerprints

SpecFp == InitFp /\ [][NextFp]_vars

-----------------------------------------------------------------------------
(* The claims *)

\* The fingerprint of the wall arrays an HDF5 group holds.
HasWalls(g) ==
    /\ g.Geometry # None
    /\ {"Walls 1", "Walls 2", "Walls 3"} \subseteq DOMAIN Get(g.Geometry).dsets
StoredWalls(g) ==
    [n \in {"Walls 1", "Walls 2", "Walls 3"} |-> Get(g.Geometry).dsets[n].data]
StoredId(g) ==
    md5_hexdigest(tobytes(StoredWalls(g)["Walls 1"])
                  \o tobytes(StoredWalls(g)["Walls 2"])
                  \o tobytes(StoredWalls(g)["Walls 3"]))
GeometryTag(g) == Get(g.Geometry).attrs.geometry
IntegrityError ==
    Raised("Exception", "Calculated geometry hash does not match hash in file",
           <<>>)

\* C1: in every state of the group that set_walls, quantity assignments and
\* writes (completed or failed) reach, every dataset write created in the
\* Physics group carries a geometry tag equal to the Geometry group's tag, and
\* that tag is the fingerprint of the wall arrays stored in the group.
C1_TagsMatchStoredWalls ==
    h5group.Physics # None =>
        \A n \in DOMAIN Get(h5group.Physics) :
            Get(h5group.Physics)[n].kind = "dataset" =>
                /\ Get(h5group.Physics)[n].geometry = GeometryTag(h5group)
                /\ HasWalls(h5group)
                /\ GeometryTag(h5group) = Some(StoredId(h5group))

\* C2: a read that loaded the walls and recomputed a fingerprint different
\* from the stored tag raises the hash-mismatch exception and adds no
\* quantity to the store; a read returns only when the two are equal.
C2_Loaded(g) ==
    /\ g.Physics # None
    /\ HasWalls(g)
    /\ set_walls(NewGrid, StoredWalls(g)["Walls 1"], StoredWalls(g)["Walls 2"],
                 StoredWalls(g)["Walls 3"]).err = NoError
C2_ReadChecksFingerprint ==
    [][result'.op = "read" =>
        /\ (C2_Loaded(h5group) /\ GeometryTag(h5group) # Some(StoredId(h5group)))
              => /\ result'.err = IntegrityError
                 /\ mesh'.quantities = mesh.quantities
        /\ result'.err = NoError
              => /\ HasWalls(h5group)
                 /\ GeometryTag(h5group) = Some(StoredId(h5group))
                 /\ get_geometry_id(mesh') = StoredId(h5group)]_vars
C2_Witness ==
    /\ result.op = "read"
    /\ result.err = IntegrityError
    /\ C2_Loaded(h5group)
    /\ GeometryTag(h5group) # Some(StoredId(h5group))
    /\ DOMAIN Get(h5group.Physics) # {}

\* C3: set_walls is all-or-nothing: a call that raises leaves the grid as it
\* was, and a call that returns leaves the walls, shape, centers and derived
\* arrays computed from the new walls.
C3_AllOrNothing ==
    [][result'.op = "set_walls" =>
        /\ result'.err # NoError => mesh' = mesh
        /\ result'.err = NoError =>
             mesh' = [set_walls(NewGrid, Get(mesh'.r_wall), Get(mesh'.t_wall),
                                Get(mesh'.p_wall)).self
                         EXCEPT !.quantities = mesh.quantities]]_vars

\* C4: a write of a grid with walls set to an empty group, followed at once by
\* a read of the group into a new grid with the selector 'all', completes and
\* leaves the new grid with the walls, the centers and the quantities of the
\* written one, each up to the precision it was written at.
C4_Precision(g, n) == Get(g.Geometry).dsets[n].data.dtype
C4_SameWalls(a, b, dtype) ==
    /\ a # None
    /\ Len(Get(a).v) = Len(Get(b).v)
    /\ \A i \in DOMAIN Get(a).v : Get(a).v[i] = astype(dtype, Get(b).v[i])
C4_Written ==
    /\ HasWalls(h5group)
    /\ h5group.Physics # None
    /\ DOMAIN mesh.quantities \subseteq DOMAIN Get(h5group.Physics)
C4_RoundTrip ==
    (result.op = "read" /\ C4_Written) =>
        /\ result.err = NoError
        /\ C4_SameWalls(reader.r_wall, mesh.r_wall, C4_Precision(h5group, "Walls 1"))
        /\ C4_SameWalls(reader.t_wall, mesh.t_wall, C4_Precision(h5group, "Walls 2"))
        /\ C4_SameWalls(reader.p_wall, mesh.p_wall, C4_Precision(h5group, "Walls 3"))
        /\ reader.r # None /\ reader.t # None /\ reader.p # None
        /\ DOMAIN reader.quantities = DOMAIN mesh.quantities
        /\ \A n \in DOMAIN mesh.quantities :
              /\ reader.quantities[n].shapes = <<data_shape(mesh.quantities[n])>>
              /\ reader.quantities[n].fill =
                    astype(reader.quantities[n].dtype, mesh.quantities[n].fill)

\* The Uninitialized state: no set_walls, and no read, has run to its end
\* (line 163, the widths, is the last assignment of set_walls).
Uninitialized == mesh.widths = None

C6_Writable(self) ==
    \A n \in DOMAIN self.quantities :
        \/ self.quantities[n].kind = "ExternalLink"
        \/ _check_array_dimensions(self, self.quantities[n]) = NoError

\* C6: once walls are set, every write completes, also on a group that holds
\* the Geometry and Physics groups of an earlier write, and changes nothing
\* of the grid.
C6_WriteCompletes ==
    [][(result'.op = "write" /\ ~Uninitialized /\ C6_Writable(mesh)) =>
            result'.err = NoError /\ mesh' = mesh]_vars

\* The shapes of a stored value that are not the grid's shape.
C7_Offending(self, value) ==
    {Some(value.shapes[i]) : i \in {j \in DOMAIN value.shapes :
                                        Some(value.shapes[j]) # self.shape}}
C7_Mismatched(self, n) ==
    /\ n \in DOMAIN self.quantities
    /\ self.quantities[n].kind \in {"ndarray", "list"}
    /\ C7_Offending(self, self.quantities[n]) # {}

C7_ReachesQuantities(self, g) ==
    /\ self.r_wall # None
    /\ g.Geometry # None => DOMAIN Get(g.Geometry).dsets = {}
Walls(self) == <<Get(self.r_wall).v, Get(self.t_wall).v, Get(self.p_wall).v>>
C8_OneElementChanged(a, b) ==
    /\ \A k \in 1..3 : Len(Walls(a)[k]) = Len(Walls(b)[k])
    /\ Cardinality({<<k, i>> \in (1..3) \X (1..MaxLen + 1) :
                        /\ i <= Len(Walls(a)[k])
                        /\ Walls(a)[k][i] # Walls(b)[k][i]}) = 1

\* C8: two grids with identical wall arrays have equal fingerprints, and two
\* grids that differ in a single element of one wall array (lengths equal)
\* have different fingerprints.
C8_FingerprintOfContent ==
    result.op = "get_geometry_id" =>
        /\ Walls(mesh) = Walls(reader) => result.val[1] = result.val[2]
        /\ C8_OneElementChanged(mesh, reader) => result.val[1] # result.val[2]
C8_Witness ==
    /\ result.op = "get_geometry_id"
    /\ C8_OneElementChanged(mesh, reader)
    /\ Walls(mesh)[3] # Walls(reader)[3]

\* C9: once a set_walls call has succeeded, shape is (np, nt, nr), one less
\* than the lengths of the stored walls, the volumes have that shape, the
\* areas the shape (6, np, nt, nr) and the widths the shape (3, np, nt, nr).
C9_ShapesFollowWalls ==
    ~Uninitialized =>
        /\ mesh.shape = Some(<<Get(mesh.np), Get(mesh.nt), Get(mesh.nr)>>)
        /\ Get(mesh.shape) = <<Len(Walls(mesh)[3]) - 1, Len(Walls(mesh)[2]) - 1,
                               Len(Walls(mesh)[1]) - 1>>
        /\ Get(mesh.volumes).shape = Get(mesh.shape)
        /\ Get(mesh.areas).shape = <<6>> \o Get(mesh.shape)
        /\ Get(mesh.widths).shape = <<3>> \o Get(mesh.shape)

\* C10: two grids whose wall triples are not identical, array for array, have
\* different fingerprints.
C10_Injective ==
    (result.op = "get_geometry_id" /\ Walls(mesh) # Walls(reader)) =>
        result.val[1] # result.val[2]

====
